---- MODULE Spec2Model ----
(***************************************************************************)
(* nano-banana-proxy: the POST /retouch relay, in its three variants.      *)
(*   "pro"   src/index.js lines 1-219    (fal-ai/nano-banana-pro/edit)      *)
(*   "edit"  src/index.js lines 221-431  (fal-ai/nano-banana/edit)          *)
(*   "part"  src/unnamed/part_000        (prompt table keyed by             *)
(*                                        backgroundId)                     *)
(* A JavaScript string is a sequence of tokens; the token " " is the only   *)
(* whitespace.  A long literal (a prompt text) is one token.                *)
(***************************************************************************)
EXTENDS Integers, Sequences, FiniteSets, TLC

\* ------------------------------------------------------------------ bounds
\* number of /retouch requests in flight
MaxReq == 2
\* longest resolutionHint string enumerated
MaxLen == 3
\* longest promptOverride / prompt string enumerated
MaxPromptLen == 2

VARIABLES variant, env, FAL_API_KEY, listening, reqBody, upstream, pc, local, outbound, resp

vars == <<variant, env, FAL_API_KEY, listening, reqBody, upstream, pc, local, outbound, resp>>

Variants == {"pro", "edit", "part"}
Requests == 1..MaxReq

\* --------------------------------------------------------- JavaScript values
\* A value of a request-body field: undefined, null, a string, or an object
\* whose own "toString" property is not callable (JSON {"toString":1}).
Undefined == [t |-> "undefined", s |-> <<>>]
Null == [t |-> "null", s |-> <<>>]
Str(s) == [t |-> "string", s |-> s]
ObjNoToString == [t |-> "object", s |-> <<>>]
Function == [t |-> "function", s |-> <<>>]

\* !v
Truthy(v) ==
  CASE v.t = "undefined" -> FALSE
    [] v.t = "null" -> FALSE
    [] v.t = "string" -> v.s # <<>>
    [] OTHER -> TRUE

Returned(v) == [threw |-> FALSE, err |-> "", val |-> v]
Thrown(e) == [threw |-> TRUE, err |-> e, val |-> <<>>]

\* String.prototype.trim
RECURSIVE TrimStart(_)
TrimStart(s) == IF s # <<>> /\ Head(s) = " " THEN TrimStart(Tail(s)) ELSE s

RECURSIVE TrimEnd(_)
TrimEnd(s) ==
  IF s # <<>> /\ s[Len(s)] = " " THEN TrimEnd(SubSeq(s, 1, Len(s) - 1)) ELSE s

Trim(s) == TrimEnd(TrimStart(s))

\* String.prototype.toUpperCase
UpperChar(c) ==
  CASE c = "k" -> "K"
    [] c = "x" -> "X"
    [] OTHER -> c

ToUpperCase(s) == [i \in 1..Len(s) |-> UpperChar(s[i])]

\* String(value) on a truthy value
StringOf(value) ==
  IF value.t = "object"
  THEN Thrown("TypeError: Cannot convert object to primitive value")
  ELSE Returned(value.s)

\* /^c/.test(v)
StartsWith(v, c) == v # <<>> /\ Head(v) = c

R1K == <<"1", "K">>
R2K == <<"2", "K">>
R4K == <<"4", "K">>
Tiers == {R1K, R2K, R4K}

\* normalizeResolution without the trim
normalizeResolutionNoTrim(value) ==
  IF ~Truthy(value) THEN Returned(R1K)
  ELSE LET str == StringOf(value) IN
    IF str.threw THEN Thrown(str.err)
    ELSE LET v == ToUpperCase(str.val) IN
      IF v \in Tiers THEN Returned(v)
      ELSE IF StartsWith(v, "1") THEN Returned(R1K)
      ELSE IF StartsWith(v, "2") THEN Returned(R2K)
      ELSE IF StartsWith(v, "4") THEN Returned(R4K)
      ELSE Returned(R1K)

\* index.js normalizeResolution (both variants of index.js are the same text)
normalizeResolution(value) ==
  IF ~Truthy(value) THEN Returned(R1K)
  ELSE LET str == StringOf(value) IN
    IF str.threw THEN Thrown(str.err)
    ELSE LET v == ToUpperCase(Trim(str.val)) IN
      IF v \in Tiers THEN Returned(v)
      ELSE IF StartsWith(v, "1") THEN Returned(R1K)
      ELSE IF StartsWith(v, "2") THEN Returned(R2K)
      ELSE IF StartsWith(v, "4") THEN Returned(R4K)
      ELSE Returned(R1K)

\* part_000 normalizeResolution: (hint || "").toString().toUpperCase().trim()
normalizeResolutionPart(hint) ==
  LET h == IF Truthy(hint) THEN hint ELSE Str(<<>>) IN
  IF h.t = "object"
  THEN Thrown("TypeError: (hint || \"\").toString is not a function")
  ELSE LET upper == Trim(ToUpperCase(h.s)) IN
    IF upper \in Tiers THEN Returned(upper) ELSE Returned(R1K)

\* ------------------------------------------------------------ prompt choice
DEFAULT_PROMPT == <<"Retouch the image in ultra-high resolution ... exactly as they appear in the original photo.">>

\* finalPromptOf with `prompt` tested before `promptOverride`
finalPromptPromptFirst(promptOverride, prompt) ==
  IF prompt.t = "string" /\ Len(Trim(prompt.s)) > 0
  THEN Trim(prompt.s)
  ELSE IF promptOverride.t = "string" /\ Len(Trim(promptOverride.s)) > 0
  THEN Trim(promptOverride.s)
  ELSE DEFAULT_PROMPT

\* index.js: let finalPrompt = DEFAULT_PROMPT; if (typeof promptOverride ...)
finalPromptOf(promptOverride, prompt) ==
  IF promptOverride.t = "string" /\ Len(Trim(promptOverride.s)) > 0
  THEN Trim(promptOverride.s)
  ELSE IF prompt.t = "string" /\ Len(Trim(prompt.s)) > 0
  THEN Trim(prompt.s)
  ELSE DEFAULT_PROMPT

\* part_000: const promptMap = { studioSoft, taekwondo, holiday, cleanMono }
promptMap ==
  [studioSoft |-> <<"Retouch the uploaded portrait into a soft, clean studio look ...">>,
   taekwondo |-> <<"Create a high-energy Taekwondo Photo Day background ...">>,
   holiday |-> <<"Transform the background into a warm holiday studio ...">>,
   cleanMono |-> <<"Use a simple, modern single-color studio wall background ...">>]

\* promptMap[backgroundId]: an own key gives its text; a name inherited from
\* Object.prototype ("constructor") gives a function; any other key undefined;
\* an object key is first converted to a string, which throws for ObjNoToString.
promptMapGet(backgroundId) ==
  IF backgroundId.t = "object"
  THEN Thrown("TypeError: Cannot convert object to primitive value")
  ELSE IF backgroundId.t # "string" THEN Returned(Undefined)
  ELSE IF backgroundId.s = <<"studioSoft">> THEN Returned(Str(promptMap.studioSoft))
  ELSE IF backgroundId.s = <<"taekwondo">> THEN Returned(Str(promptMap.taekwondo))
  ELSE IF backgroundId.s = <<"holiday">> THEN Returned(Str(promptMap.holiday))
  ELSE IF backgroundId.s = <<"cleanMono">> THEN Returned(Str(promptMap.cleanMono))
  ELSE IF backgroundId.s = <<"constructor">> THEN Returned(Function)
  ELSE Returned(Undefined)

\* part_000: const prompt = promptMap[backgroundId] || promptMap.studioSoft
promptOfBackground(backgroundId) ==
  LET got == promptMapGet(backgroundId) IN
  IF got.threw THEN got
  ELSE IF Truthy(got.val) THEN got
  ELSE Returned(Str(promptMap.studioSoft))

\* ------------------------------------------------------- upstream JSON bodies
\* A URL-valued property: UNDEF when the property is missing, "" when empty.
UNDEF == "undefined"
FALSE_JS == "false"
UrlTruthy(u) == u \notin {UNDEF, "", FALSE_JS}
OrJS(a, b) == IF UrlTruthy(a) THEN a ELSE b

\* The property `images` / `output`: missing, an array, or a non-array object
\* with a property "0"; url0 is the `url` of its element 0 (UNDEF when there is
\* no element 0 or it has no url).
NoList == [present |-> FALSE, isArray |-> FALSE, url0 |-> UNDEF]

\* A parsed JSON value; the properties are all missing on a non-object.
JsonOf(kind) ==
  [kind |-> kind, images |-> NoList, image_url |-> UNDEF, imageUrl |-> UNDEF,
   url |-> UNDEF, output |-> NoList]

NoJson == JsonOf("none")
EmptyObject == JsonOf("object")

\* The upstream body text: empty, not JSON, or the text of a JSON value.
TextOf(syntax, value) == [syntax |-> syntax, value |-> value]
NoText == TextOf("none", NoJson)
EmptyText == TextOf("empty", NoJson)
GarbageText == TextOf("invalid", NoJson)

\* rawText ? ... : ...
TextTruthy(rawText) == rawText.syntax # "empty"

\* JSON.parse(rawText)
JSONParse(rawText) ==
  IF rawText.syntax = "valid"
  THEN [threw |-> FALSE, err |-> "", val |-> rawText.value]
  ELSE [threw |-> TRUE, err |-> "SyntaxError: Unexpected token in JSON", val |-> NoJson]

\* ParseBody without the guard for the empty text
ParseBodyNoGuard(rawText) == JSONParse(rawText)

\* rawText ? JSON.parse(rawText) : {}
ParseBody(rawText) ==
  IF TextTruthy(rawText) THEN JSONParse(rawText)
  ELSE [threw |-> FALSE, err |-> "", val |-> EmptyObject]

\* imageUrlIndex with image_url read before images[0].url
imageUrlIndexImageUrlFirst(falJson) ==
  IF falJson.kind = "null"
  THEN Thrown("TypeError: Cannot read properties of null (reading 'image_url')")
  ELSE LET fromImages == IF falJson.images.present /\ falJson.images.isArray
                         THEN falJson.images.url0 ELSE FALSE_JS
           fromOutput == IF falJson.output.present
                         THEN falJson.output.url0 ELSE UNDEF
       IN Returned(OrJS(falJson.image_url, OrJS(fromImages,
                     OrJS(falJson.imageUrl, fromOutput))))

\* index.js: (Array.isArray(falJson.images) && falJson.images[0]?.url) ||
\*           falJson.image_url || falJson.imageUrl || falJson.output?.[0]?.url
imageUrlIndex(falJson) ==
  IF falJson.kind = "null"
  THEN Thrown("TypeError: Cannot read properties of null (reading 'images')")
  ELSE LET fromImages == IF falJson.images.present /\ falJson.images.isArray
                         THEN falJson.images.url0 ELSE FALSE_JS
           fromOutput == IF falJson.output.present
                         THEN falJson.output.url0 ELSE UNDEF
       IN Returned(OrJS(fromImages, OrJS(falJson.image_url,
                     OrJS(falJson.imageUrl, fromOutput))))

\* part_000: falJson.image_url || falJson.url ||
\*   (falJson.output && Array.isArray(falJson.output) && falJson.output[0] && falJson.output[0].url)
imageUrlPart(falJson) ==
  IF falJson.kind = "null"
  THEN Thrown("TypeError: Cannot read properties of null (reading 'image_url')")
  ELSE LET fromOutput == IF ~falJson.output.present THEN UNDEF
                         ELSE IF ~falJson.output.isArray THEN FALSE_JS
                         ELSE falJson.output.url0
       IN Returned(OrJS(falJson.image_url, OrJS(falJson.url, fromOutput)))

\* ------------------------------------------------------------- configuration
\* process.env.X is undefined when X is not set
NotSet == "<unset>"
EnvTruthy(x) == x \notin {NotSet, ""}

\* index.js: process.env.FAL_KEY || process.env.FAL_API_KEY
\* part_000: process.env.FAL_KEY
KeyAtStartup(v, e) ==
  IF v = "part" THEN e.FAL_KEY
  ELSE IF EnvTruthy(e.FAL_KEY) THEN e.FAL_KEY ELSE e.FAL_API_KEY

FalUrl(v) ==
  IF v = "edit" THEN "https://fal.run/fal-ai/nano-banana/edit"
  ELSE "https://fal.run/fal-ai/nano-banana-pro/edit"

\* ------------------------------------------------------------------ requests
\* const { imageBase64, ... } = req.body || {}
Field(body, name) == IF body.parsed THEN body[name] ELSE Undefined

NoBody ==
  [parsed |-> FALSE, imageBase64 |-> Undefined, backgroundId |-> Undefined,
   resolutionHint |-> Undefined, promptOverride |-> Undefined, prompt |-> Undefined]

BodyOf(image, bg, hint, override, prompt) ==
  [parsed |-> TRUE, imageBase64 |-> image, backgroundId |-> bg,
   resolutionHint |-> hint, promptOverride |-> override, prompt |-> prompt]

\* the values a handler invocation holds across its awaits
NoLocals ==
  [imageBase64 |-> Undefined, backgroundId |-> Undefined,
   resolution |-> <<>>, finalPrompt |-> Undefined]

\* JSON.stringify drops a property whose value is a function
Stringified(v) == IF v.t = "function" THEN Undefined ELSE v

\* the JSON body of the outbound call, over the union of the three shapes
NoPayload ==
  [prompt |-> Undefined, num_images |-> 0, aspect_ratio |-> "", output_format |-> "",
   sync_mode |-> FALSE, image_urls |-> <<>>, resolution |-> <<>>,
   input |-> [present |-> FALSE, image_url |-> Undefined, prompt |-> Undefined]]

PayloadIndex(v, finalPrompt, imageBase64, resolution) ==
  [NoPayload EXCEPT !.prompt = Stringified(Str(finalPrompt)), !.num_images = 1,
                    !.aspect_ratio = "auto", !.output_format = "png",
                    !.sync_mode = (v = "edit"),
                    !.image_urls = <<imageBase64>>,
                    !.resolution = IF v = "pro" THEN resolution ELSE <<>>]

PayloadPart(prompt, imageBase64, resolution) ==
  [NoPayload EXCEPT !.input = [present |-> TRUE, image_url |-> imageBase64,
                               prompt |-> Stringified(prompt)],
                    !.resolution = resolution]

\* fetch(url, { method: "POST", headers, body: JSON.stringify(payload) })
CallOf(v, key, payload) ==
  [url |-> FalUrl(v), method |-> "POST", contentType |-> "application/json",
   Authorization |-> "Key " \o key, body |-> payload]

\* ----------------------------------------------------------------- responses
NoDetails == [k |-> "none", str |-> "", text |-> NoText, json |-> NoJson]
DetailsStr(x) == [NoDetails EXCEPT !.k = "string", !.str = x]
DetailsText(x) == [NoDetails EXCEPT !.k = "text", !.text = x]
DetailsJson(x) == [NoDetails EXCEPT !.k = "json", !.json = x]

NoResponse ==
  [sent |-> FALSE, status |-> 0, error |-> "", details |-> NoDetails, raw |-> NoText,
   upstreamStatus |-> 0, ok |-> FALSE, imageUrl |-> UNDEF, usedPrompt |-> <<>>,
   resolution |-> <<>>, resolutionHint |-> <<>>, backgroundId |-> Undefined]

\* res.status(code).json({ error })
ErrorResponse(code, error) ==
  [NoResponse EXCEPT !.sent = TRUE, !.status = code, !.error = error]

ErrNoKey(v) ==
  IF v = "part"
  THEN [ErrorResponse(500, "Server configuration error")
          EXCEPT !.details = DetailsStr("FAL_KEY missing")]
  ELSE ErrorResponse(500, "Server is not configured with FAL_API_KEY.")

ErrNoImage(v) ==
  IF v = "part" THEN ErrorResponse(400, "imageBase64 is required in request body")
  ELSE ErrorResponse(400, "imageBase64 is required.")

\* the catch (err) block
ErrUnexpected(v, err) ==
  [ErrorResponse(500, IF v = "part" THEN "Unexpected server error in /retouch"
                      ELSE "Unexpected server error")
     EXCEPT !.details = DetailsStr(err)]

ErrUpstream(v, status, rawText) ==
  CASE v = "pro" ->
         [ErrorResponse(500, "Nano Banana Pro Edit processing failed")
            EXCEPT !.upstreamStatus = status, !.details = DetailsText(rawText)]
    [] v = "edit" ->
         [ErrorResponse(500, "Nano Banana Edit processing failed")
            EXCEPT !.upstreamStatus = status, !.details = DetailsText(rawText)]
    [] OTHER ->
         [ErrorResponse(500, "Nano Banana Pro processing failed")
            EXCEPT !.details = DetailsText(rawText)]

ErrParse(v, e, rawText) ==
  CASE v = "pro" ->
         [ErrorResponse(500, "Invalid JSON from Nano Banana Pro Edit")
            EXCEPT !.details = DetailsStr(e), !.raw = rawText]
    [] v = "edit" ->
         [ErrorResponse(500, "Invalid JSON from Nano Banana Edit")
            EXCEPT !.details = DetailsStr(e), !.raw = rawText]
    [] OTHER ->
         [ErrorResponse(500, "Invalid JSON from Fal")
            EXCEPT !.details = DetailsText(rawText)]

ErrNoImageUrl(v, falJson) ==
  [ErrorResponse(500,
     CASE v = "pro" -> "Nano Banana Pro Edit did not return an image URL."
       [] v = "edit" -> "Nano Banana Edit did not return an image URL."
       [] OTHER -> "No image URL returned from Fal")
     EXCEPT !.details = DetailsJson(falJson)]

\* res.json({ ok: true, imageUrl, usedPrompt, resolution, backgroundId, ... })
\* (the timestamps startedAt / finishedAt are left out)
Success(v, imageUrl, loc) ==
  CASE v = "pro" ->
         [NoResponse EXCEPT !.sent = TRUE, !.status = 200, !.ok = TRUE,
                            !.imageUrl = imageUrl, !.usedPrompt = loc.finalPrompt.s,
                            !.resolution = loc.resolution,
                            !.backgroundId = loc.backgroundId]
    [] v = "edit" ->
         [NoResponse EXCEPT !.sent = TRUE, !.status = 200, !.ok = TRUE,
                            !.imageUrl = imageUrl, !.usedPrompt = loc.finalPrompt.s,
                            !.resolutionHint = loc.resolution,
                            !.backgroundId = loc.backgroundId]
    [] OTHER ->
         [NoResponse EXCEPT !.sent = TRUE, !.status = 200, !.imageUrl = imageUrl]

\* --------------------------------------------------------------- the handler
\* Validate with the image test `imageBase64 === undefined`: "" passes
ValidateUndefinedOnly(key, imageBase64) ==
  IF ~EnvTruthy(key) THEN "nokey"
  ELSE IF imageBase64.t = "undefined" THEN "noimage"
  ELSE "ok"

\* Validate with the two checks in the other order
ValidateImageFirst(key, imageBase64) ==
  IF ~Truthy(imageBase64) THEN "noimage"
  ELSE IF ~EnvTruthy(key) THEN "nokey"
  ELSE "ok"

\* steps 1) and 2): the key check, then the image check
Validate(key, imageBase64) ==
  IF ~EnvTruthy(key) THEN "nokey"
  ELSE IF ~Truthy(imageBase64) THEN "noimage"
  ELSE "ok"

Responds(r) == [respond |-> TRUE, resp |-> r, calls |-> <<>>, loc |-> NoLocals]
Fetches(call, loc) ==
  [respond |-> FALSE, resp |-> NoResponse, calls |-> <<call>>, loc |-> loc]

\* index.js: from the start of the handler to `await fetch(...)`
BeforeFetchIndex(v, key, body) ==
  LET imageBase64 == Field(body, "imageBase64")
      backgroundId == Field(body, "backgroundId")
      checked == Validate(key, imageBase64)
  IN
  IF checked = "nokey" THEN Responds(ErrNoKey(v))
  ELSE IF checked = "noimage" THEN Responds(ErrNoImage(v))
  ELSE LET resolution == normalizeResolution(Field(body, "resolutionHint")) IN
    IF resolution.threw THEN Responds(ErrUnexpected(v, resolution.err))
    ELSE LET finalPrompt ==
               finalPromptOf(Field(body, "promptOverride"), Field(body, "prompt"))
         IN Fetches(CallOf(v, key, PayloadIndex(v, finalPrompt, imageBase64, resolution.val)),
                    [imageBase64 |-> imageBase64, backgroundId |-> backgroundId,
                     resolution |-> resolution.val, finalPrompt |-> Str(finalPrompt)])

\* part_000: from the start of the handler to `await fetch(...)`
BeforeFetchPart(v, key, body) ==
  LET imageBase64 == Field(body, "imageBase64")
      backgroundId == Field(body, "backgroundId")
      checked == Validate(key, imageBase64)
  IN
  IF checked = "nokey" THEN Responds(ErrNoKey(v))
  ELSE IF checked = "noimage" THEN Responds(ErrNoImage(v))
  ELSE LET prompt == promptOfBackground(backgroundId) IN
    IF prompt.threw THEN Responds(ErrUnexpected(v, prompt.err))
    ELSE LET resolution == normalizeResolutionPart(Field(body, "resolutionHint")) IN
      IF resolution.threw THEN Responds(ErrUnexpected(v, resolution.err))
      ELSE Fetches(CallOf(v, key, PayloadPart(prompt.val, imageBase64, resolution.val)),
                   [imageBase64 |-> imageBase64, backgroundId |-> backgroundId,
                    resolution |-> resolution.val, finalPrompt |-> prompt.val])

BeforeFetch(v, key, body) ==
  IF v = "part" THEN BeforeFetchPart(v, key, body) ELSE BeforeFetchIndex(v, key, body)

\* the upstream's answer to one call: the call fails (fetch rejects), the body
\* cannot be read (text() rejects), or a status and a body text arrive
NoReply == [net |-> "none", status |-> 0, text |-> NoText]
FetchFails == [net |-> "fetchFail", status |-> 0, text |-> NoText]
TextFails(status) == [net |-> "textFail", status |-> status, text |-> NoText]
Reply(status, text) == [net |-> "ok", status |-> status, text |-> text]

\* falRes.ok taken as "not a server error"
ResponseOkBelow500(status) == status >= 200 /\ status < 500

\* falRes.ok
ResponseOk(status) == status >= 200 /\ status <= 299

\* from `const rawText = await falRes.text()` to the response
AfterText(v, loc, reply) ==
  IF reply.net = "textFail" THEN ErrUnexpected(v, "TypeError: terminated")
  ELSE IF ~ResponseOk(reply.status) THEN ErrUpstream(v, reply.status, reply.text)
  ELSE LET falJson == ParseBody(reply.text) IN
    IF falJson.threw THEN ErrParse(v, falJson.err, reply.text)
    ELSE LET imageUrl == IF v = "part" THEN imageUrlPart(falJson.val)
                         ELSE imageUrlIndex(falJson.val)
         IN IF imageUrl.threw THEN ErrUnexpected(v, imageUrl.err)
            ELSE IF ~UrlTruthy(imageUrl.val) THEN ErrNoImageUrl(v, falJson.val)
            ELSE Success(v, imageUrl.val, loc)

\* scope with the handler's variables declared at module level: every
\* invocation sees the values of the latest request that arrived
scopeShared(r) ==
  local[CHOOSE q \in Requests :
          pc[q] # "idle" /\ \A p \in Requests : pc[p] # "idle" => p <= q]

\* the variables of the invocation serving request r (declared inside the handler)
scope(r) == local[r]

\* ------------------------------------------------------------------- actions
\* The r-th request arrives and its handler runs to its first await or response.
Receive(r, body) ==
  /\ listening
  /\ pc[r] = "idle"
  /\ \A q \in Requests : q < r => pc[q] # "idle"
  /\ LET out == BeforeFetch(variant, FAL_API_KEY, body) IN
       /\ reqBody' = [reqBody EXCEPT ![r] = body]
       /\ outbound' = [outbound EXCEPT ![r] = @ \o out.calls]
       /\ local' = [local EXCEPT ![r] = out.loc]
       /\ resp' = [resp EXCEPT ![r] = out.resp]
       /\ pc' = [pc EXCEPT ![r] = IF out.respond THEN "done" ELSE "fetch"]
  /\ UNCHANGED <<variant, env, FAL_API_KEY, listening, upstream>>

\* The promise of fetch settles: rejected (caught, 500) or resolved.
FetchSettled(r, reply) ==
  /\ pc[r] = "fetch"
  /\ upstream' = [upstream EXCEPT ![r] = reply]
  /\ IF reply.net = "fetchFail"
     THEN /\ resp' = [resp EXCEPT ![r] = ErrUnexpected(variant, "TypeError: fetch failed")]
          /\ pc' = [pc EXCEPT ![r] = "done"]
     ELSE /\ resp' = resp
          /\ pc' = [pc EXCEPT ![r] = "text"]
  /\ UNCHANGED <<variant, env, FAL_API_KEY, listening, reqBody, local, outbound>>

\* The promise of falRes.text() settles and the handler runs to its response.
TextSettled(r) ==
  /\ pc[r] = "text"
  /\ resp' = [resp EXCEPT ![r] = AfterText(variant, scope(r), upstream[r])]
  /\ pc' = [pc EXCEPT ![r] = "done"]
  /\ UNCHANGED <<variant, env, FAL_API_KEY, listening, reqBody, upstream, local, outbound>>

NextOver(Reqs, Bodies, Replies) ==
  \E r \in Reqs :
    \/ \E body \in Bodies : Receive(r, body)
    \/ \E reply \in Replies : FetchSettled(r, reply)
    \/ TextSettled(r)

\* ------------------------------------------------------------ initial states
Envs == [FAL_KEY : {NotSet, "", "key-1"}, FAL_API_KEY : {NotSet, "key-2"}]

Init ==
  /\ variant \in Variants
  /\ env \in Envs
  /\ FAL_API_KEY = KeyAtStartup(variant, env)
  /\ listening = TRUE
  /\ reqBody = [r \in Requests |-> NoBody]
  /\ upstream = [r \in Requests |-> NoReply]
  /\ pc = [r \in Requests |-> "idle"]
  /\ local = [r \in Requests |-> NoLocals]
  /\ outbound = [r \in Requests |-> <<>>]
  /\ resp = [r \in Requests |-> NoResponse]

\* -------------------------------------------- concurrent requests, small inputs
Image == Str(<<"data:image/jpeg;base64,AAAA">>)
UrlImages == "https://x/images0.png"
UrlImageUrl == "https://x/image_url.png"
UrlImageUrlCamel == "https://x/imageUrl.png"
UrlUrl == "https://x/url.png"
UrlOutput == "https://x/output0.png"

ImagesBody == [EmptyObject EXCEPT !.images = [present |-> TRUE, isArray |-> TRUE, url0 |-> UrlImages]]
ImageUrlBody == [EmptyObject EXCEPT !.image_url = UrlImageUrl]

Bodies ==
  { NoBody,
    BodyOf(Str(<<>>), Undefined, Undefined, Undefined, Undefined),
    BodyOf(Image, Undefined, Undefined, Undefined, Undefined),
    BodyOf(Image, Str(<<"holiday">>), Str(<<"2", "k">>), Str(<<"a">>), Undefined),
    BodyOf(Image, Undefined, ObjNoToString, Undefined, Undefined) }

Replies ==
  { FetchFails, TextFails(200),
    Reply(200, TextOf("valid", ImagesBody)),
    Reply(200, TextOf("valid", ImageUrlBody)),
    Reply(200, GarbageText),
    Reply(500, GarbageText) }

Next == NextOver(Requests, Bodies, Replies)

Spec == Init /\ [][Next]_vars

\* ---------------------------------------------------------------- properties
KeyConfigured == EnvTruthy(KeyAtStartup(variant, env))
ImageAbsentOrEmpty(r) == Field(reqBody[r], "imageBase64") \in {Undefined, Str(<<>>)}
Arrived(r) == pc[r] # "idle"
Answered(r) == pc[r] = "done" /\ resp[r].sent

\* C1 as stated: a request whose imageBase64 is absent or empty is answered 400
\* and makes no outbound call, whatever the server configuration.
C1_MissingImage400Always ==
  \A r \in Requests :
    Arrived(r) /\ ImageAbsentOrEmpty(r) =>
      Answered(r) /\ resp[r].status = 400 /\ outbound[r] = <<>>

\* C1 amended: a request whose imageBase64 is absent or empty makes no outbound
\* call; it is answered 400 when the API key is configured, and 500 when not.
C1_MissingImage ==
  \A r \in Requests :
    Arrived(r) /\ ImageAbsentOrEmpty(r) =>
      /\ Answered(r)
      /\ outbound[r] = <<>>
      /\ resp[r].status = IF KeyConfigured THEN 400 ELSE 500

C1_Witness ==
  \E r \in Requests :
    /\ Answered(r) /\ KeyConfigured /\ resp[r].status = 400
    /\ reqBody[r].parsed /\ reqBody[r].imageBase64 = Str(<<>>)

ConfigErrors == {"Server is not configured with FAL_API_KEY.", "Server configuration error"}

\* C2: while the API key is not configured every request, whatever its body, is
\* answered 500 with a configuration error and makes no outbound call, and the
\* server goes on accepting the next request.
C2_NoKey500 ==
  ~KeyConfigured =>
    /\ listening
    /\ \A r \in Requests :
         /\ Arrived(r) =>
              /\ Answered(r) /\ resp[r].status = 500
              /\ resp[r].error \in ConfigErrors
              /\ outbound[r] = <<>>
         /\ (pc[r] = "idle" /\ \A q \in Requests : q < r => pc[q] = "done")
              => ENABLED (\E body \in Bodies : Receive(r, body))

C2_Witness ==
  /\ ~KeyConfigured
  /\ \A r \in Requests : Answered(r) /\ resp[r].status = 500
  /\ \E r \in Requests : ImageAbsentOrEmpty(r)
  /\ \E r \in Requests : ~ImageAbsentOrEmpty(r)

\* C3 as stated: a request that passes validation (key configured, imageBase64
\* non-empty) makes exactly one outbound call before its response is sent, and
\* no request ever makes a second one.
C3_ExactlyOneCall ==
  \A r \in Requests :
    /\ Len(outbound[r]) <= 1
    /\ (Arrived(r) /\ KeyConfigured /\ Truthy(Field(reqBody[r], "imageBase64")))
         => Len(outbound[r]) = 1 /\ outbound[r][1].url = FalUrl(variant)

\* the response the code gives to one request taken alone
Outcome(v, key, body, reply) ==
  LET out == BeforeFetch(v, key, body) IN
  IF out.respond THEN out.resp
  ELSE IF reply.net = "fetchFail" THEN ErrUnexpected(v, "TypeError: fetch failed")
  ELSE AfterText(v, out.loc, reply)

\* C10: under every interleaving the response to a request is the one its own
\* body, the startup configuration and the reply to its own call give, and the
\* process-wide key is never written.
C10_Isolation ==
  /\ FAL_API_KEY = KeyAtStartup(variant, env)
  /\ listening
  /\ \A r \in Requests :
       pc[r] = "done" =>
         resp[r] = Outcome(variant, KeyAtStartup(variant, env), reqBody[r], upstream[r])

\* a later request has been answered 200 while an earlier one, which chose
\* another prompt, is still suspended in its await
C10_Witness ==
  \E r, q \in Requests :
    /\ r < q
    /\ pc[r] = "text" /\ Answered(q) /\ resp[q].status = 200
    /\ local[r].finalPrompt # local[q].finalPrompt

\* ------------------------------------------ one request, every upstream reply
UrlChoices(u) == {UNDEF, "", u}

Lists(u) ==
  { NoList,
    [present |-> TRUE, isArray |-> TRUE, url0 |-> UNDEF],
    [present |-> TRUE, isArray |-> TRUE, url0 |-> ""],
    [present |-> TRUE, isArray |-> TRUE, url0 |-> u],
    [present |-> TRUE, isArray |-> FALSE, url0 |-> u] }

JsonObjects ==
  [kind : {"object"}, images : Lists(UrlImages), image_url : UrlChoices(UrlImageUrl),
   imageUrl : UrlChoices(UrlImageUrlCamel), url : UrlChoices(UrlUrl),
   output : Lists(UrlOutput)]

JsonNonObjects == {JsonOf("null"), JsonOf("string"), JsonOf("number"), JsonOf("array")}

Texts ==
  {EmptyText, GarbageText} \cup {TextOf("valid", j) : j \in JsonObjects \cup JsonNonObjects}

Statuses == {200, 299, 404, 500}

RepliesAll ==
  {FetchFails} \cup {TextFails(st) : st \in Statuses}
    \cup {Reply(st, text) : st \in Statuses, text \in Texts}

BodiesExtract ==
  { BodyOf(Image, Str(<<"holiday">>), Str(<<"4", "K">>), Str(<<"a">>), Undefined) }

NextExtract == NextOver({1}, BodiesExtract, RepliesAll)

SpecExtract == Init /\ [][NextExtract]_vars

\* a status and a body text arrived for the call of request r
Delivered(r) == Answered(r) /\ upstream[r].net = "ok"
Is2xx(st) == st \in 200..299
NoImageErrors ==
  { "Nano Banana Pro Edit did not return an image URL.",
    "Nano Banana Edit did not return an image URL.",
    "No image URL returned from Fal" }
ParseErrors ==
  { "Invalid JSON from Nano Banana Pro Edit", "Invalid JSON from Nano Banana Edit",
    "Invalid JSON from Fal" }
UpstreamErrors ==
  { "Nano Banana Pro Edit processing failed", "Nano Banana Edit processing failed",
    "Nano Banana Pro processing failed" }
UnexpectedErrors == {"Unexpected server error", "Unexpected server error in /retouch"}

\* the first non-empty URL of a list of candidates, UNDEF when there is none
RECURSIVE FirstNonEmpty(_)
FirstNonEmpty(us) ==
  IF us = <<>> THEN UNDEF
  ELSE IF Head(us) \notin {UNDEF, ""} THEN Head(us)
  ELSE FirstNonEmpty(Tail(us))

ElementUrl(list) == IF list.present THEN list.url0 ELSE UNDEF
ArrayElementUrl(list) == IF list.present /\ list.isArray THEN list.url0 ELSE UNDEF

\* the order of the claim: image_url, url, images[0].url, output[0].url
StatedUrl(j) ==
  FirstNonEmpty(<<j.image_url, j.url, ElementUrl(j.images), ElementUrl(j.output)>>)

\* the order of index.js, and the order of part_000
VariantUrl(v, j) ==
  IF v = "part"
  THEN FirstNonEmpty(<<j.image_url, j.url, ArrayElementUrl(j.output)>>)
  ELSE FirstNonEmpty(<<ArrayElementUrl(j.images), j.image_url, j.imageUrl,
                       ElementUrl(j.output)>>)

OnlyImagesUrl(j) == j = ImagesBody

\* C4 as stated: on a 2xx JSON body the imageUrl answered with 200 is the first
\* non-empty of image_url, url, images[0].url, output[0].url, and a body whose
\* only URL is images[0].url is answered 200 with that URL in every variant.
C4_StatedPriority ==
  \A r \in Requests :
    (Delivered(r) /\ Is2xx(upstream[r].status) /\ upstream[r].text.syntax = "valid") =>
      LET j == upstream[r].text.value IN
        /\ resp[r].status = 200 => resp[r].imageUrl = StatedUrl(j)
        /\ OnlyImagesUrl(j) => resp[r].status = 200 /\ resp[r].imageUrl = UrlImages

\* C4 amended: the imageUrl answered with 200 is the first non-empty value in
\* the variant's own order (index.js: images[0].url of an array, image_url,
\* imageUrl, output[0].url; part_000: image_url, url, output[0].url of an
\* array); a body whose only URL is images[0].url is answered 200 with it by
\* index.js and with the 500 no-image-URL failure by part_000.
C4_VariantPriority ==
  \A r \in Requests :
    (Delivered(r) /\ Is2xx(upstream[r].status) /\ upstream[r].text.syntax = "valid"
       /\ upstream[r].text.value.kind # "null") =>
      LET j == upstream[r].text.value
          u == VariantUrl(variant, j)
      IN /\ u # UNDEF => resp[r].status = 200 /\ resp[r].imageUrl = u
         /\ u = UNDEF => resp[r].status = 500 /\ resp[r].error \in NoImageErrors
         /\ OnlyImagesUrl(j) /\ variant # "part" => resp[r].imageUrl = UrlImages
         /\ OnlyImagesUrl(j) /\ variant = "part" => resp[r].status = 500

\* index.js answers with images[0].url although image_url is present too
C4_Witness ==
  \E r \in Requests :
    /\ Delivered(r) /\ variant = "pro" /\ resp[r].status = 200
    /\ upstream[r].text.value.image_url = UrlImageUrl
    /\ upstream[r].text.value.url = UrlUrl
    /\ resp[r].imageUrl = UrlImages

\* C5: a non-2xx reply is answered 500 with `details` the upstream body text
\* as received, parsable or not, and no image URL is extracted.
C5_UpstreamError ==
  \A r \in Requests :
    (Delivered(r) /\ ~Is2xx(upstream[r].status)) =>
      /\ resp[r].status = 500
      /\ resp[r].error \in UpstreamErrors
      /\ resp[r].details = DetailsText(upstream[r].text)
      /\ resp[r].imageUrl = UNDEF

\* a 404 whose body is JSON holding an image URL is not parsed
C5_Witness ==
  \E r \in Requests :
    /\ Delivered(r) /\ upstream[r].status = 404
    /\ upstream[r].text = TextOf("valid", ImagesBody)
    /\ resp[r].status = 500 /\ resp[r].details.k = "text"

CarriesRawText(r) ==
  resp[r].raw = upstream[r].text \/ resp[r].details = DetailsText(upstream[r].text)
CarriesParseError(r) ==
  resp[r].details = DetailsStr("SyntaxError: Unexpected token in JSON")

\* C6 as stated: a 2xx reply whose body is not valid JSON, the empty body
\* included, is answered with the 500 parse failure, which carries the parse
\* error and the raw text.
C6_StatedParseFailure ==
  \A r \in Requests :
    (Delivered(r) /\ Is2xx(upstream[r].status)
       /\ upstream[r].text.syntax \in {"empty", "invalid"}) =>
      /\ resp[r].status = 500 /\ resp[r].error \in ParseErrors
      /\ CarriesRawText(r) /\ CarriesParseError(r)

\* C6 amended: a 2xx reply whose body is non-empty and not valid JSON is
\* answered with the 500 parse failure, whose error differs from the other
\* failures' and which carries the raw text; index.js also carries the parse
\* error, part_000 does not.  An empty 2xx body is read as {} and answered with
\* the no-image-URL failure.
C6_ParseFailure ==
  \A r \in Requests :
    (Delivered(r) /\ Is2xx(upstream[r].status)) =>
      /\ upstream[r].text.syntax = "invalid" =>
           /\ resp[r].status = 500 /\ resp[r].error \in ParseErrors
           /\ resp[r].error \notin UpstreamErrors \cup NoImageErrors \cup UnexpectedErrors
           /\ CarriesRawText(r)
           /\ CarriesParseError(r) <=> variant # "part"
      /\ upstream[r].text.syntax = "empty" =>
           /\ resp[r].status = 500 /\ resp[r].error \in NoImageErrors
           /\ resp[r].details = DetailsJson(EmptyObject)

C6_Witness ==
  \E r \in Requests :
    /\ Delivered(r) /\ upstream[r].status = 200 /\ upstream[r].text = GarbageText
    /\ resp[r].error \in ParseErrors /\ resp[r].raw = GarbageText

\* no URL under any of the keys some variant reads
NoUrlAnywhere(j) ==
  /\ j.image_url \in {UNDEF, ""} /\ j.imageUrl \in {UNDEF, ""} /\ j.url \in {UNDEF, ""}
  /\ j.images.url0 \in {UNDEF, ""} /\ j.output.url0 \in {UNDEF, ""}

\* C7 as stated: a 2xx reply whose body parses as JSON (an object, null, a
\* string, a number or an array) and holds no image URL is answered with the
\* 500 no-image-URL failure whose details is the parsed value, never with the
\* unexpected-error failure.
C7_NoImageUrl ==
  \A r \in Requests :
    (Delivered(r) /\ Is2xx(upstream[r].status) /\ upstream[r].text.syntax = "valid"
       /\ NoUrlAnywhere(upstream[r].text.value)) =>
      /\ resp[r].status = 500 /\ resp[r].error \in NoImageErrors
      /\ resp[r].details = DetailsJson(upstream[r].text.value)

\* ---------------------------------------------- one request, every prompt input
StringsUpTo(chars, n) == UNION {[1..k -> chars] : k \in 0..n}

BackgroundIds ==
  { Undefined, Null, Str(<<"studioSoft">>), Str(<<"taekwondo">>), Str(<<"holiday">>),
    Str(<<"cleanMono">>), Str(<<"sunset">>), Str(<<"constructor">>), ObjNoToString }

Overrides ==
  {Undefined, Null} \cup {Str(x) : x \in StringsUpTo({" ", "a"}, MaxPromptLen)}

Prompts == {Undefined} \cup {Str(x) : x \in StringsUpTo({" ", "b"}, MaxPromptLen)}

BodiesPrompt ==
  { BodyOf(Image, bg, Undefined, o, p) : bg \in BackgroundIds, o \in Overrides, p \in Prompts }

RepliesFew ==
  { FetchFails, Reply(200, TextOf("valid", ImagesBody)),
    Reply(200, TextOf("valid", ImageUrlBody)) }

NextPrompt == NextOver({1}, BodiesPrompt, RepliesFew)

SpecPrompt == Init /\ [][NextPrompt]_vars

\* s without its leading and trailing blanks
Strip(x) ==
  LET solid == {i \in 1..Len(x) : x[i] # " "} IN
  IF solid = {} THEN <<>>
  ELSE SubSeq(x, CHOOSE i \in solid : \A k \in solid : i <= k,
                 CHOOSE i \in solid : \A k \in solid : k <= i)

NonBlank(v) == v.t = "string" /\ \E i \in 1..Len(v.s) : v.s[i] # " "

\* the prompt in the body of the call made for request r
SentPrompt(r) ==
  IF variant = "part" THEN outbound[r][1].body.input.prompt
  ELSE outbound[r][1].body.prompt

OwnKey(bg) == bg.t = "string" /\ Len(bg.s) = 1 /\ bg.s[1] \in DOMAIN promptMap

\* the client override of the claim: promptOverride, else prompt
StatedOverride(body) ==
  IF NonBlank(body.promptOverride) THEN body.promptOverride ELSE body.prompt

\* the prompt the claim's precedence gives
StatedPrompt(v, body) ==
  IF NonBlank(StatedOverride(body)) THEN Strip(StatedOverride(body).s)
  ELSE IF OwnKey(body.backgroundId) THEN promptMap[body.backgroundId.s[1]]
  ELSE IF v = "part" THEN promptMap.studioSoft
  ELSE DEFAULT_PROMPT

\* C8 as stated: a non-blank override wins, else the table entry of a valid
\* backgroundId, else the default prompt; that prompt is the one sent upstream.
C8_StatedPrecedence ==
  \A r \in Requests :
    outbound[r] # <<>> => SentPrompt(r) = Str(StatedPrompt(variant, reqBody[r]))

\* C8 amended: index.js sends the stripped promptOverride when it is a
\* non-blank string, else the stripped prompt when it is one, else the default
\* prompt, and backgroundId plays no part; part_000 ignores both overrides and
\* sends the table entry of backgroundId, the studioSoft entry when
\* backgroundId names nothing, and no prompt at all when backgroundId names an
\* inherited member ("constructor"), whose value is a function.
C8_VariantPrompt ==
  \A r \in Requests :
    outbound[r] # <<>> =>
      LET body == reqBody[r] IN
      /\ Len(outbound[r]) = 1
      /\ variant # "part" =>
           /\ NonBlank(body.promptOverride) =>
                SentPrompt(r) = Str(Strip(body.promptOverride.s))
           /\ ~NonBlank(body.promptOverride) /\ NonBlank(body.prompt) =>
                SentPrompt(r) = Str(Strip(body.prompt.s))
           /\ ~NonBlank(body.promptOverride) /\ ~NonBlank(body.prompt) =>
                SentPrompt(r) = Str(DEFAULT_PROMPT)
           /\ Answered(r) /\ resp[r].status = 200 =>
                Str(resp[r].usedPrompt) = SentPrompt(r)
      /\ variant = "part" =>
           /\ OwnKey(body.backgroundId) =>
                SentPrompt(r) = Str(promptMap[body.backgroundId.s[1]])
           /\ body.backgroundId = Str(<<"constructor">>) => SentPrompt(r) = Undefined
           /\ body.backgroundId \in {Undefined, Null, Str(<<"sunset">>)} =>
                SentPrompt(r) = Str(promptMap.studioSoft)

\* index.js: a padded promptOverride beats both prompt and a valid backgroundId
C8_Witness ==
  \E r \in Requests :
    /\ variant = "edit" /\ Answered(r) /\ resp[r].status = 200
    /\ reqBody[r].backgroundId = Str(<<"holiday">>)
    /\ reqBody[r].promptOverride = Str(<<" ", "a">>)
    /\ reqBody[r].prompt = Str(<<"b">>)
    /\ SentPrompt(r) = Str(<<"a">>)

\* ------------------------------------------- one request, every resolutionHint
HintChars == {" ", "1", "2", "4", "8", "k", "K", "x"}

Hints == {Undefined, Null} \cup {Str(x) : x \in StringsUpTo(HintChars, MaxLen)}

BodiesNorm == { BodyOf(Image, Undefined, hint, Undefined, Undefined) : hint \in Hints }

RepliesNorm == {FetchFails, Reply(200, TextOf("valid", ImagesBody))}

NextNorm == NextOver({1}, BodiesNorm, RepliesNorm)

SpecNorm == Init /\ [][NextNorm]_vars

\* the reference of the claim
StatedResolution(hint) ==
  IF hint.t # "string" THEN R1K
  ELSE LET t == ToUpperCase(Strip(hint.s)) IN
    IF t \in {R1K, R2K, R4K} THEN t
    ELSE IF t # <<>> /\ t[1] = "1" THEN R1K
    ELSE IF t # <<>> /\ t[1] = "2" THEN R2K
    ELSE IF t # <<>> /\ t[1] = "4" THEN R4K
    ELSE R1K

\* part_000: an exact tier or 1K
ExactResolution(hint) ==
  IF hint.t # "string" THEN R1K
  ELSE LET t == ToUpperCase(Strip(hint.s)) IN
    IF t \in {R1K, R2K, R4K} THEN t ELSE R1K

Validated(r) == Arrived(r) /\ KeyConfigured /\ Truthy(Field(reqBody[r], "imageBase64"))
StringOrAbsent(v) == v.t \in {"undefined", "null", "string"}

\* C9 as stated: in every variant normalizeResolution returns, for an absent,
\* null or string input, the value of the reference (exact tier, else the tier
\* of the first character, else 1K).
C9_StatedReference ==
  \A r \in Requests :
    (Validated(r) /\ StringOrAbsent(reqBody[r].resolutionHint)) =>
      /\ outbound[r] # <<>>
      /\ local[r].resolution = StatedResolution(reqBody[r].resolutionHint)

\* C9 amended: normalizeResolution never fails on an absent, null or string
\* input and returns one of 1K, 2K, 4K; in index.js that is the value of the
\* reference; in part_000 it is the stripped upper-cased input when that is a
\* tier and 1K otherwise (no first-character rule: "2" gives 1K).
C9_Resolution ==
  \A r \in Requests :
    (Validated(r) /\ StringOrAbsent(reqBody[r].resolutionHint)) =>
      /\ outbound[r] # <<>>
      /\ local[r].resolution \in {R1K, R2K, R4K}
      /\ variant # "part" =>
           local[r].resolution = StatedResolution(reqBody[r].resolutionHint)
      /\ variant = "part" =>
           local[r].resolution = ExactResolution(reqBody[r].resolutionHint)
      /\ variant # "edit" => outbound[r][1].body.resolution = local[r].resolution

\* index.js maps the padded " 2x" to 2K and echoes it
C9_Witness ==
  \E r \in Requests :
    /\ variant = "pro" /\ Answered(r) /\ resp[r].status = 200
    /\ reqBody[r].resolutionHint = Str(<<" ", "2", "x">>)
    /\ resp[r].resolution = R2K

====
